---- MODULE Spec2Model ----
(***************************************************************************)
(* A model of the two map facades of geocolor:                             *)
(*   foliumap.Map  (src/geocolor/foliumap.py, over folium.Map)             *)
(*   geocolor.Map  (src/geocolor/geocolor.py, over ipyleaflet.Map)         *)
(* A map is its ordered layer collection and its viewport.  Every method   *)
(* is a pure operator from the map before the call to the map after it     *)
(* together with the exception (if any) the call ends in; an action        *)
(* applies one method call to the map and records the call in `last`.      *)
(***************************************************************************)
EXTENDS Integers, Sequences, FiniteSets, TLC

VARIABLES variant, layers, viewport, last

vars == <<variant, layers, viewport, last>>

\* The number of layers a map of the model holds at most.
MaxLayers == 2

----------------------------------------------------------------------------
(* Values *)

None == "None"

\* Coordinate reference systems: geographic, a projected one, and a
\* GeoDataFrame without any (gdf.crs is None).
EPSG4326 == "EPSG:4326"
EPSG3857 == "EPSG:3857"
CRSs == {EPSG4326, EPSG3857, None}

\* The forward projection geographic -> EPSG3857 data are stored with: an
\* injective map on coordinates that is not the identity.
Project(p) == <<p[1] * 100, p[2] * 100>>

ProjectAll(coords) == [i \in DOMAIN coords |-> Project(coords[i])]

\* Geographic geometries, as sequences of [lon, lat] positions (one position
\* per feature): no feature, one feature, two features whose bounding box is
\* spanned by neither alone.
Geometries == { <<>>, << <<2, 1>> >>, << <<-1, 3>>, <<2, 1>> >> }

NonEmptyGeometry == << <<-1, 3>>, <<2, 1>> >>

\* The files gpd.read_file finds: a projected shapefile, a geographic GeoJSON
\* file of the same geometry, and a shapefile without a .prj.
Files ==
    [p \in {"roads.shp", "roads.geojson", "naive.shp"} |->
        CASE p = "roads.shp"     -> [crs |-> EPSG3857, coords |-> ProjectAll(NonEmptyGeometry)]
          [] p = "roads.geojson" -> [crs |-> EPSG4326, coords |-> NonEmptyGeometry]
          [] p = "naive.shp"     -> [crs |-> None, coords |-> NonEmptyGeometry]]

Paths == DOMAIN Files \cup {"missing.shp"}

\* The GeoDataFrames a caller can hold: each geometry in each CRS.
GeoDataFrames ==
    { [crs |-> c, coords |-> IF c = EPSG3857 THEN ProjectAll(g) ELSE g] :
        c \in CRSs, g \in Geometries }

\* A GeoJSON dictionary holds geographic coordinates (RFC 7946).
Dicts == { [crs |-> EPSG4326, coords |-> g] : g \in Geometries }

\* An argument of a vector-ingestion call, tagged with its Python type.
StrData(p)  == [kind |-> "str",  path |-> p,  crs |-> None,  coords |-> <<>>]
GdfData(g)  == [kind |-> "gdf",  path |-> "", crs |-> g.crs, coords |-> g.coords]
DictData(d) == [kind |-> "dict", path |-> "", crs |-> d.crs, coords |-> d.coords]
IntData     == [kind |-> "int",  path |-> "", crs |-> None,  coords |-> <<>>]
NoData      == [kind |-> "none", path |-> "", crs |-> None,  coords |-> <<>>]

AsTable(data) == [crs |-> data.crs, coords |-> data.coords]

StrSources  == { StrData(p) : p \in Paths }
GdfSources  == { GdfData(g) : g \in GeoDataFrames }
DictSources == { DictData(d) : d \in Dicts }
Sources     == StrSources \cup GdfSources \cup DictSources \cup {IntData}

\* hover_style arguments: the default None, or a caller's style.
NoStyle     == [color |-> "None", fillOpacity |-> "None"]
CustomHover == [color |-> "blue", fillOpacity |-> "0.5"]
HoverArgs   == {NoStyle, CustomHover}

----------------------------------------------------------------------------
(* The wrapped libraries *)

\* A call's result: the map after it and the exception it ended in.
Return(m) == [layers |-> m.layers, viewport |-> m.viewport, err |-> "ok", msg |-> ""]

Raise(m, e, s) == [layers |-> m.layers, viewport |-> m.viewport, err |-> e, msg |-> s]

\* ipyleaflet.Map.add_layer / folium's layer.add_to(map)
add_layer(m, layer) == [m EXCEPT !.layers = Append(@, layer)]

\* ipyleaflet.Map.fit_bounds
fit_bounds(m, bounds) == [m EXCEPT !.viewport.bounds = bounds]

\* gpd.read_file finds the file or raises.
FileExists(path) == path \in DOMAIN Files

read_file(path) == Files[path]

\* GeoDataFrame.to_crs(epsg=4326) raises on a frame without a CRS ...
CanReproject(gdf) == gdf.crs # None

\* ... and otherwise inverts the frame's projection.
Unproject(q) == <<q[1] \div 100, q[2] \div 100>>

to_crs(gdf) ==
    [crs |-> EPSG4326,
     coords |-> IF gdf.crs = EPSG3857
                THEN [i \in DOMAIN gdf.coords |-> Unproject(gdf.coords[i])]
                ELSE gdf.coords]

\* GeoDataFrame.__geo_interface__: the features, in the frame's coordinates.
geo_interface(gdf) == [crs |-> gdf.crs, coords |-> gdf.coords]

RECURSIVE MinOf(_, _), MaxOf(_, _)
MinOf(coords, k) ==
    IF Len(coords) = 1 THEN coords[1][k]
    ELSE LET r == MinOf(Tail(coords), k)
         IN IF coords[1][k] < r THEN coords[1][k] ELSE r

MaxOf(coords, k) ==
    IF Len(coords) = 1 THEN coords[1][k]
    ELSE LET r == MaxOf(Tail(coords), k)
         IN IF coords[1][k] > r THEN coords[1][k] ELSE r

\* GeoDataFrame.total_bounds: [minx, miny, maxx, maxy].
total_bounds(gdf) ==
    <<MinOf(gdf.coords, 1), MinOf(gdf.coords, 2),
      MaxOf(gdf.coords, 1), MaxOf(gdf.coords, 2)>>

NoName == <<>>

\* ipyleaflet.GeoJSON(data=geojson, hover_style=hover_style, **kwargs)
GeoJSONLayer(geojson, hover_style) ==
    [kind |-> "geojson", name |-> NoName, url |-> "",
     data |-> geojson, hover_style |-> hover_style]

NoGeoJSON == [crs |-> None, coords |-> <<>>]

\* ipyleaflet.TileLayer(url=..., name=...)
TileLayer(url, name) ==
    [kind |-> "tile", name |-> name, url |-> url,
     data |-> NoGeoJSON, hover_style |-> NoStyle]

----------------------------------------------------------------------------
(* foliumap.Map *)

\* __init__(center=(0, 0), zoom=2)
foliumap_init ==
    [layers |-> <<>>,
     viewport |-> [center |-> <<0, 0>>, zoom |-> 2, bounds |-> <<>>]]

\* folium.GeoJson(data=geojson, **kwargs): hover_style is not among the
\* arguments handed on.
folium_GeoJson(geojson) == GeoJSONLayer(geojson, NoStyle)

foliumap_add_geojson(m, data, zoom_to_layer, hover_style) ==
    LET hs == IF hover_style = NoStyle
              THEN [color |-> "yellow", fillOpacity |-> "0.2"]
              ELSE hover_style
    IN  IF data.kind = "str" THEN
            IF ~FileExists(data.path) THEN Raise(m, "DataSourceError", data.path)
            ELSE LET gdf == read_file(data.path)
                     geojson == geo_interface(gdf)
                 IN  Return(add_layer(m, folium_GeoJson(geojson)))
        ELSE IF data.kind = "dict" THEN
            LET geojson == AsTable(data)
            IN  Return(add_layer(m, folium_GeoJson(geojson)))
        ELSE \* geojson was never bound
            Raise(m, "UnboundLocalError", "geojson")

foliumap_add_shp(m, data, zoom_to_layer, hover_style) ==
    IF ~FileExists(data.path) THEN Raise(m, "DataSourceError", data.path)
    ELSE LET gdf == read_file(data.path)
         IN  IF ~CanReproject(gdf) THEN Raise(m, "ValueError", "Cannot transform naive geometries")
             ELSE LET geojson == geo_interface(to_crs(gdf))
                  IN  foliumap_add_geojson(m, DictData(geojson), zoom_to_layer, hover_style)

foliumap_add_gdf(m, gdf, zoom_to_layer, hover_style) ==
    IF ~CanReproject(gdf) THEN Raise(m, "ValueError", "Cannot transform naive geometries")
    ELSE LET geojson == geo_interface(to_crs(gdf))
         IN  foliumap_add_geojson(m, DictData(geojson), zoom_to_layer, hover_style)

foliumap_add_vector(m, data, zoom_to_layer, hover_style) ==
    IF data.kind = "str" THEN
        IF ~FileExists(data.path) THEN Raise(m, "DataSourceError", data.path)
        ELSE foliumap_add_gdf(m, read_file(data.path), zoom_to_layer, hover_style)
    ELSE IF data.kind = "gdf" THEN
        foliumap_add_gdf(m, AsTable(data), zoom_to_layer, hover_style)
    ELSE IF data.kind = "dict" THEN
        foliumap_add_geojson(m, data, zoom_to_layer, hover_style)
    ELSE Raise(m, "ValueError", "Invalid data type")

----------------------------------------------------------------------------
(* geocolor.Map *)

\* __init__(center=[20, 0], zoom=2, height="600px")
geocolor_init ==
    [layers |-> <<>>,
     viewport |-> [center |-> <<20, 0>>, zoom |-> 2, bounds |-> <<>>]]

geocolor_add_geojson(m, data, zoom_to_layer, hover_style) ==
    LET hs == IF hover_style = NoStyle
              THEN [color |-> "red", fillOpacity |-> "0.2"]
              ELSE hover_style
    IN  IF data.kind = "str" THEN
            IF ~FileExists(data.path) THEN Raise(m, "DataSourceError", data.path)
            ELSE LET gdf == read_file(data.path)
                     geojson == geo_interface(gdf)
                     m1 == add_layer(m, GeoJSONLayer(geojson, hs))
                 IN  IF zoom_to_layer
                     THEN LET bounds == total_bounds(gdf)
                          IN  Return(fit_bounds(m1, << <<bounds[2], bounds[1]>>,
                                                       <<bounds[4], bounds[3]>> >>))
                     ELSE Return(m1)
        ELSE IF data.kind = "dict" THEN
            LET geojson == AsTable(data)
                m1 == add_layer(m, GeoJSONLayer(geojson, hs))
            IN  IF zoom_to_layer
                THEN \* gdf is bound only on the str branch
                     Raise(m1, "UnboundLocalError", "gdf")
                ELSE Return(m1)
        ELSE Raise(m, "ValueError", "Unsupported data type for GeoJSON input.")

geocolor_add_shp(m, data, zoom_to_layer, hover_style) ==
    IF ~FileExists(data.path) THEN Raise(m, "DataSourceError", data.path)
    ELSE LET gdf == read_file(data.path)
         IN  IF ~CanReproject(gdf) THEN Raise(m, "ValueError", "Cannot transform naive geometries")
             ELSE LET geojson == geo_interface(to_crs(gdf))
                  IN  geocolor_add_geojson(m, DictData(geojson), zoom_to_layer, hover_style)

\* add_gdf with the reprojection left out.
geocolor_add_gdf_NoReproject(m, gdf, zoom_to_layer, hover_style) ==
    LET geojson == geo_interface(gdf)
    IN  geocolor_add_geojson(m, DictData(geojson), zoom_to_layer, hover_style)

geocolor_add_gdf(m, gdf, zoom_to_layer, hover_style) ==
    IF ~CanReproject(gdf) THEN Raise(m, "ValueError", "Cannot transform naive geometries")
    ELSE LET geojson == geo_interface(to_crs(gdf))
         IN  geocolor_add_geojson(m, DictData(geojson), zoom_to_layer, hover_style)

\* add_vector with the final else branch left out.
geocolor_add_vector_NoElse(m, data, zoom_to_layer, hover_style) ==
    IF data.kind = "str" THEN
        IF ~FileExists(data.path) THEN Raise(m, "DataSourceError", data.path)
        ELSE geocolor_add_gdf(m, read_file(data.path), zoom_to_layer, hover_style)
    ELSE IF data.kind = "gdf" THEN
        geocolor_add_gdf(m, AsTable(data), zoom_to_layer, hover_style)
    ELSE IF data.kind = "dict" THEN
        geocolor_add_geojson(m, data, zoom_to_layer, hover_style)
    ELSE Return(m)

geocolor_add_vector(m, data, zoom_to_layer, hover_style) ==
    IF data.kind = "str" THEN
        IF ~FileExists(data.path) THEN Raise(m, "DataSourceError", data.path)
        ELSE geocolor_add_gdf(m, read_file(data.path), zoom_to_layer, hover_style)
    ELSE IF data.kind = "gdf" THEN
        geocolor_add_gdf(m, AsTable(data), zoom_to_layer, hover_style)
    ELSE IF data.kind = "dict" THEN
        geocolor_add_geojson(m, data, zoom_to_layer, hover_style)
    ELSE Raise(m, "ValueError", "Invalid data type")

----------------------------------------------------------------------------
(* geocolor.Map: tile layers *)

\* Strings whose characters matter are sequences of one-character strings.
Lowercase == <<"a", "b", "c", "d", "e", "f", "g", "h", "i", "j", "k", "l", "m",
               "n", "o", "p", "q", "r", "s", "t", "u", "v", "w", "x", "y", "z">>

Uppercase == <<"A", "B", "C", "D", "E", "F", "G", "H", "I", "J", "K", "L", "M",
               "N", "O", "P", "Q", "R", "S", "T", "U", "V", "W", "X", "Y", "Z">>

upper_char(c) ==
    IF \E i \in DOMAIN Lowercase : Lowercase[i] = c
    THEN Uppercase[CHOOSE i \in DOMAIN Lowercase : Lowercase[i] = c]
    ELSE c

lower_char(c) ==
    IF \E i \in DOMAIN Uppercase : Uppercase[i] = c
    THEN Lowercase[CHOOSE i \in DOMAIN Uppercase : Uppercase[i] = c]
    ELSE c

\* str.upper()
upper(s) == [i \in DOMAIN s |-> upper_char(s[i])]

ROADMAP   == <<"R", "O", "A", "D", "M", "A", "P">>
SATELLITE == <<"S", "A", "T", "E", "L", "L", "I", "T", "E">>
HYBRID    == <<"H", "Y", "B", "R", "I", "D">>
TERRAIN   == <<"T", "E", "R", "R", "A", "I", "N">>

map_types ==
    [k \in {ROADMAP, SATELLITE, HYBRID, TERRAIN} |->
        CASE k = ROADMAP   -> "m"
          [] k = SATELLITE -> "s"
          [] k = HYBRID    -> "y"
          [] k = TERRAIN   -> "p"]

GoogleUrl(code) ==
    "https://mt1.google.com/vt/lyrs=" \o lower_char(code) \o "&x={x}&y={y}&z={z}"

\* add_google_map looking the name up as given.
geocolor_add_google_map_NoUpper(m, map_type) ==
    LET key == map_type
    IN  IF key \notin DOMAIN map_types THEN Raise(m, "KeyError", "map_types")
        ELSE LET url == GoogleUrl(map_types[key])
                 layer == TileLayer(url, <<"Google Map">>)
             IN  Return(add_layer(m, layer))

geocolor_add_google_map(m, map_type) ==
    LET key == upper(map_type)
    IN  IF key \notin DOMAIN map_types THEN Raise(m, "KeyError", "map_types")
        ELSE LET url == GoogleUrl(map_types[key])
                 layer == TileLayer(url, <<"Google Map">>)
             IN  Return(add_layer(m, layer))

\* ipyleaflet.basemaps: the built-in tile providers, by name, with the URL
\* build_url() gives.
basemaps ==
    [n \in {"OpenStreetMap", "StamenTerrain", "EsriSatellite"} |->
        CASE n = "OpenStreetMap" -> "https://tile.openstreetmap.org/{z}/{x}/{y}.png"
          [] n = "StamenTerrain" -> "https://tiles.stadiamaps.com/tiles/stamen_terrain/{z}/{x}/{y}.png"
          [] n = "EsriSatellite" -> "https://server.arcgisonline.com/ArcGIS/rest/services/World_Imagery/MapServer/tile/{z}/{y}/{x}"]

\* eval(f"ipyleaflet.basemaps.{basemap}"): the argument, as Python tokens,
\* is evaluated as the rest of an expression.  A single name is an attribute
\* of the registry; in `name or rest` the attribute, a non-empty provider, is
\* true and `rest` is not evaluated; nothing at all, or anything else here,
\* does not parse.
eval_basemap(basemap) ==
    IF Len(basemap) = 1 \/ (Len(basemap) = 3 /\ basemap[2] = "or")
    THEN IF basemap[1] \in DOMAIN basemaps
         THEN [err |-> "ok", url |-> basemaps[basemap[1]]]
         ELSE [err |-> "AttributeError", url |-> ""]
    ELSE [err |-> "SyntaxError", url |-> ""]

geocolor_add_basemap(m, basemap) ==
    LET provider == eval_basemap(basemap)
    IN  IF provider.err # "ok" THEN Raise(m, provider.err, "basemaps")
        ELSE LET layer == TileLayer(provider.url, basemap)
             IN  Return(add_layer(m, layer))

----------------------------------------------------------------------------
(* The state machine: one map, one method call per step *)

Variants == {"foliumap", "geocolor"}

Self == [layers |-> layers, viewport |-> viewport]

NoCall ==
    [op |-> "init", data |-> NoData, zoom_to_layer |-> TRUE, hover_style |-> NoStyle,
     name |-> NoName, err |-> "ok", msg |-> "", pre |-> foliumap_init]

\* The call just made, the map it was made on, and how it ended.
Called(op, data, zoom_to_layer, hover_style, name, r) ==
    /\ layers' = r.layers
    /\ viewport' = r.viewport
    /\ last' = [op |-> op, data |-> data, zoom_to_layer |-> zoom_to_layer,
                hover_style |-> hover_style, name |-> name,
                err |-> r.err, msg |-> r.msg, pre |-> Self]
    /\ UNCHANGED variant

Init ==
    /\ variant \in Variants
    /\ layers = IF variant = "foliumap" THEN foliumap_init.layers ELSE geocolor_init.layers
    /\ viewport = IF variant = "foliumap" THEN foliumap_init.viewport
                  ELSE geocolor_init.viewport
    /\ last = [NoCall EXCEPT !.pre = [layers |-> layers, viewport |-> viewport]]

add_vector ==
    /\ Len(layers) < MaxLayers
    /\ \E data \in Sources, zoom_to_layer \in BOOLEAN, hover_style \in HoverArgs :
         Called("add_vector", data, zoom_to_layer, hover_style, NoName,
                IF variant = "foliumap"
                THEN foliumap_add_vector(Self, data, zoom_to_layer, hover_style)
                ELSE geocolor_add_vector(Self, data, zoom_to_layer, hover_style))

add_geojson ==
    /\ Len(layers) < MaxLayers
    /\ \E data \in Sources, zoom_to_layer \in BOOLEAN, hover_style \in HoverArgs :
         Called("add_geojson", data, zoom_to_layer, hover_style, NoName,
                IF variant = "foliumap"
                THEN foliumap_add_geojson(Self, data, zoom_to_layer, hover_style)
                ELSE geocolor_add_geojson(Self, data, zoom_to_layer, hover_style))

add_shp ==
    /\ Len(layers) < MaxLayers
    /\ \E data \in StrSources, zoom_to_layer \in BOOLEAN, hover_style \in HoverArgs :
         Called("add_shp", data, zoom_to_layer, hover_style, NoName,
                IF variant = "foliumap"
                THEN foliumap_add_shp(Self, data, zoom_to_layer, hover_style)
                ELSE geocolor_add_shp(Self, data, zoom_to_layer, hover_style))

add_gdf ==
    /\ Len(layers) < MaxLayers
    /\ \E data \in GdfSources, zoom_to_layer \in BOOLEAN, hover_style \in HoverArgs :
         Called("add_gdf", data, zoom_to_layer, hover_style, NoName,
                IF variant = "foliumap"
                THEN foliumap_add_gdf(Self, AsTable(data), zoom_to_layer, hover_style)
                ELSE geocolor_add_gdf(Self, AsTable(data), zoom_to_layer, hover_style))

Next == add_vector \/ add_geojson \/ add_shp \/ add_gdf

Spec == Init /\ [][Next]_vars

----------------------------------------------------------------------------
(* The tile-layer calls of geocolor.Map *)

\* The lower-case form of an upper-case letter.
CaseVariantOf(c) == Lowercase[CHOOSE i \in DOMAIN Uppercase : Uppercase[i] = c]

RECURSIVE CaseVariants(_)
CaseVariants(s) ==
    IF s = <<>> THEN {<<>>}
    ELSE { <<c>> \o t : c \in {CaseVariantOf(s[1]), s[1]}, t \in CaseVariants(Tail(s)) }

\* Names outside the mapping.
OtherMapTypes ==
    { <<"b", "o", "g", "u", "s">>, <<>>, <<"R", "O", "A", "D">>, ROADMAP \o <<"S">>,
      <<"m">>, <<"H", "Y", "B", "R", "1", "D">> }

\* A name with its first character, or every second character, in lower case.
Uncapitalised(s) == [i \in DOMAIN s |-> IF i = 1 THEN CaseVariantOf(s[i]) ELSE s[i]]

Alternating(s) == [i \in DOMAIN s |-> IF i % 2 = 0 THEN CaseVariantOf(s[i]) ELSE s[i]]

AllLower(s) == [i \in DOMAIN s |-> CaseVariantOf(s[i])]

\* Every upper/lower-case spelling of ROADMAP and HYBRID, four spellings of
\* SATELLITE and TERRAIN, and the names outside the mapping.
MapTypeArgs ==
    CaseVariants(ROADMAP) \cup CaseVariants(HYBRID)
        \cup { f : f \in UNION { {s, Uncapitalised(s), Alternating(s), AllLower(s)} :
                                  s \in {SATELLITE, TERRAIN} } }
        \cup OtherMapTypes

BasemapArgs ==
    { <<n>> : n \in DOMAIN basemaps } \cup
    { <<"NoSuchBasemap">>, <<"openstreetmap">>, <<>>,
      <<"OpenStreetMap", "or", "NoSuchBasemap">>,
      <<"NoSuchBasemap", "or", "OpenStreetMap">>,
      <<"OpenStreetMap", "NoSuchBasemap">> }

InitTiles ==
    /\ variant = "geocolor"
    /\ layers = geocolor_init.layers
    /\ viewport = geocolor_init.viewport
    /\ last = [NoCall EXCEPT !.pre = geocolor_init]

add_basemap ==
    /\ Len(layers) < MaxLayers
    /\ \E basemap \in BasemapArgs :
         Called("add_basemap", NoData, FALSE, NoStyle, basemap,
                geocolor_add_basemap(Self, basemap))

add_google_map ==
    /\ Len(layers) < MaxLayers
    /\ \E map_type \in MapTypeArgs :
         Called("add_google_map", NoData, FALSE, NoStyle, map_type,
                geocolor_add_google_map(Self, map_type))

NextTiles == add_basemap \/ add_google_map

SpecTiles == InitTiles /\ [][NextTiles]_vars

----------------------------------------------------------------------------
(* Properties *)

\* The last call attached exactly one layer, after the layers already there.
AttachedOne ==
    /\ Len(layers) = Len(last.pre.layers) + 1
    /\ SubSeq(layers, 1, Len(last.pre.layers)) = last.pre.layers

Attached == layers[Len(layers)]

\* The last call left the map as it was.
MapUnchanged == layers = last.pre.layers /\ viewport = last.pre.viewport

VectorOps == {"add_vector", "add_geojson", "add_shp", "add_gdf"}

\* The ways a table (a file's content, a GeoDataFrame) holds the geographic
\* geometry g.
Encodings(g) ==
    { [crs |-> EPSG4326, coords |-> g], [crs |-> EPSG3857, coords |-> ProjectAll(g)] }

\* The source `data` holds the geographic geometry g.
Represents(data, g) ==
    \/ data.kind = "dict" /\ data.coords = g
    \/ data.kind = "gdf" /\ AsTable(data) \in Encodings(g)
    \/ data.kind = "str" /\ data.path \in DOMAIN Files /\ Files[data.path] \in Encodings(g)

\* [[min latitude, min longitude], [max latitude, max longitude]] of a
\* non-empty geographic geometry.
BoundingBox(g) ==
    LET lons == { g[i][1] : i \in DOMAIN g }
        lats == { g[i][2] : i \in DOMAIN g }
        Least(S) == CHOOSE x \in S : \A y \in S : x <= y
        Greatest(S) == CHOOSE x \in S : \A y \in S : x >= y
    IN  << <<Least(lats), Least(lons)>>, <<Greatest(lats), Greatest(lons)>> >>

\* C1: in both variants, add_vector with a source that is neither a string,
\* a GeoDataFrame nor a dict fails with ValueError "Invalid data type", and
\* the layers and the viewport are as before the call.
C1_InvalidKindRejected ==
    (last.op = "add_vector" /\ last.data.kind \notin {"str", "gdf", "dict"}) =>
        /\ last.err = "ValueError"
        /\ last.msg = "Invalid data type"
        /\ MapUnchanged

C1_Witness ==
    /\ last.op = "add_vector"
    /\ last.data.kind = "int"
    /\ last.err = "ValueError"
    /\ Len(layers) > 0

\* C2: add_vector with a GeoJSON dictionary and zoom_to_layer true returns
\* without error and attaches exactly one layer holding the dictionary's
\* features; for a dictionary with no features the viewport is unchanged.
C2_DictAddedWithoutError ==
    (last.op = "add_vector" /\ last.data.kind = "dict" /\ last.zoom_to_layer) =>
        /\ last.err = "ok"
        /\ AttachedOne
        /\ Attached.data.coords = last.data.coords
        /\ (last.data.coords = <<>> => viewport = last.pre.viewport)

\* C3: add_google_map resolves map_type case-insensitively against
\* ROADMAP->m, SATELLITE->s, HYBRID->y, TERRAIN->p: every spelling of a name
\* of the mapping attaches exactly one tile layer whose URL carries the
\* name's code, and any other name fails with KeyError and attaches nothing.
GoogleCodes == { <<ROADMAP, "m">>, <<SATELLITE, "s">>, <<HYBRID, "y">>, <<TERRAIN, "p">> }

SameIgnoringCase(s, t) ==
    /\ Len(s) = Len(t)
    /\ \A i \in DOMAIN s :
         \/ s[i] = t[i]
         \/ \E k \in DOMAIN Lowercase : {s[i], t[i]} = {Lowercase[k], Uppercase[k]}

C3_GoogleMapCaseInsensitive ==
    last.op = "add_google_map" =>
        IF \E e \in GoogleCodes : SameIgnoringCase(last.name, e[1])
        THEN \E e \in GoogleCodes :
                /\ SameIgnoringCase(last.name, e[1])
                /\ last.err = "ok"
                /\ AttachedOne
                /\ Attached.kind = "tile"
                /\ Attached.url = "https://mt1.google.com/vt/lyrs=" \o e[2] \o "&x={x}&y={y}&z={z}"
        ELSE last.err = "KeyError" /\ MapUnchanged

C3_Witness ==
    /\ last.op = "add_google_map"
    /\ last.name = <<"h", "Y", "b", "r", "I", "d">>
    /\ last.err = "ok"
    /\ Len(layers) = 2
    /\ layers[1].url = layers[2].url
    /\ layers[2].url = "https://mt1.google.com/vt/lyrs=y&x={x}&y={y}&z={z}"

\* C4: add_basemap with a registered name attaches exactly one layer, named
\* as given; with a name that is not registered it fails and the layers are
\* unchanged.
C4_BasemapRegistryLookup ==
    last.op = "add_basemap" =>
        IF Len(last.name) = 1 /\ last.name[1] \in {"OpenStreetMap", "StamenTerrain", "EsriSatellite"}
        THEN last.err = "ok" /\ AttachedOne /\ Attached.name = last.name
        ELSE last.err # "ok" /\ layers = last.pre.layers

\* C5: for one geometry given as a file path, as a GeoDataFrame or as a
\* GeoJSON dictionary, add_vector attaches exactly one layer, and the layer
\* holds the geometry's geographic coordinates, whichever route was taken.
C5_RoutesEquivalent ==
    last.op = "add_vector" =>
        \A g \in Geometries :
            Represents(last.data, g) =>
                /\ AttachedOne
                /\ Attached.kind = "geojson"
                /\ Attached.data = [crs |-> EPSG4326, coords |-> g]

C5_Witness ==
    /\ last.op = "add_vector"
    /\ last.data = StrData("roads.shp")
    /\ Len(layers) = 2
    /\ layers[1].data = [crs |-> EPSG4326, coords |-> NonEmptyGeometry]
    /\ layers[2].data = layers[1].data

\* C6: in both variants and for every source kind, a vector-ingestion call
\* on a non-empty collection with zoom_to_layer true completes and leaves
\* the viewport at the bounding box of the added geometry.
C6_ZoomToLayerFitsBounds ==
    (last.op \in VectorOps /\ last.zoom_to_layer) =>
        \A g \in Geometries \ {<<>>} :
            Represents(last.data, g) =>
                last.err = "ok" /\ viewport.bounds = BoundingBox(g)

\* C7: every layer add_geojson builds carries a hover style: the caller's
\* when one is passed, otherwise the variant's default.
C7_HoverStyleCarried ==
    (last.op = "add_geojson" /\ AttachedOne) =>
        Attached.hover_style =
            IF last.hover_style # NoStyle THEN last.hover_style
            ELSE IF variant = "foliumap"
                 THEN [color |-> "yellow", fillOpacity |-> "0.2"]
                 ELSE [color |-> "red", fillOpacity |-> "0.2"]

\* C8: in both variants, add_geojson with data that is neither a string nor
\* a dict raises ValueError and attaches no layer.
C8_GeojsonInvalidKindRejected ==
    (last.op = "add_geojson" /\ last.data.kind \notin {"str", "dict"}) =>
        last.err = "ValueError" /\ layers = last.pre.layers

\* C9: a call that ends in an error leaves the layers and the viewport
\* exactly as they were before the call.
C9_NoPartialResult ==
    last.err # "ok" => MapUnchanged

\* C10: every layer attached from a file path or a GeoDataFrame holds
\* geographic (EPSG:4326) coordinates, whichever operation attached it.
C10_LayersGeographic ==
    \A i \in DOMAIN layers :
        layers[i].kind = "geojson" => layers[i].data.crs = EPSG4326

====
